---- MODULE Spec2Model ----
(***************************************************************************)
(* Model of the Mirra Python SDK client (packages/mirra-sdk-python):       *)
(* MirraSDK.__init__, MirraSDK._request and the seven service facades.     *)
(*                                                                         *)
(* Python values are tagged records: None / JSON null is NoneV, a str is   *)
(* Str(s), an int is Num(n), a bool is Bool(b), a list is Arr(s) and a     *)
(* dict is Obj(f) with f a function from its keys to values (a key that is *)
(* absent from the dict is absent from DOMAIN f).                          *)
(*                                                                         *)
(* URL text is a sequence of tokens: the token "/" is one slash character, *)
(* any other token is a run of characters holding no slash.                *)
(*                                                                         *)
(* A facade call is two steps, split at the blocking session.request call: *)
(* the facade method builds the request and hands it to the session, then  *)
(* the exchange's outcome arrives and the rest of _request turns it into   *)
(* the value returned or the exception raised.  Spec has one caller whose  *)
(* calls follow one another; SpecConcurrent has two callers sharing the    *)
(* client.                                                                 *)
(***************************************************************************)
EXTENDS Integers, Sequences, FiniteSets, TLC

VARIABLES
    ctor,        \* the arguments MirraSDK(...) was constructed with
    api_key,     \* self.api_key
    base_url,    \* self.base_url
    headers,     \* self.session.headers
    pc,          \* per caller: "idle", "waiting" (inside session.request), "done"
    inflight,    \* per caller: the request its call handed to session.request
    attempts,    \* per caller: session.request invocations made by its current call
    response,    \* per caller: the outcome of the HTTP exchange of its last call
    result       \* per caller: what its last call returned or raised

vars == <<ctor, api_key, base_url, headers, pc, inflight, attempts, response, result>>

\* ---------------------------------------------------------------- bounds

\* Most trailing slashes on the base URL given to the constructor.
MaxSlashes == 2

\* ---------------------------------------------------------------- values

NoneV == [t |-> "none"]
Str(s) == [t |-> "str", v |-> s]
Num(n) == [t |-> "num", v |-> n]
Bool(b) == [t |-> "bool", v |-> b]
Arr(s) == [t |-> "arr", v |-> s]
Obj(f) == [t |-> "obj", v |-> f]

\* A response body that response.json() cannot parse.
NotJson == [t |-> "notjson"]

EmptyDict == Obj([k \in {} |-> NoneV])

IsDict(x) == x.t = "obj"

\* dict.get(key, default); the caller has checked that d is a dict.
Get(d, key, default) == IF key \in DOMAIN d.v THEN d.v[key] ELSE default

\* Python truth value of x, as `not x` computes it.
Truthy(x) ==
    CASE x.t = "none" -> FALSE
      [] x.t = "bool" -> x.v
      [] x.t = "num" -> x.v # 0
      [] x.t = "str" -> x.v # ""
      [] x.t = "arr" -> Len(x.v) > 0
      [] x.t = "obj" -> DOMAIN x.v # {}

\* ---------------------------------------------------------------- construction

Callers == {"t1", "t2"}

ApiKeys == {"k1", "k2"}

DefaultBaseUrl == <<"https:", "/", "/", "api.fxn.world", "/", "api", "/", "sdk", "/", "v1">>

BaseStems == {DefaultBaseUrl, <<"https:", "/", "/", "x", "/", "api">>, <<>>}

Slashes(n) == [i \in 1..n |-> "/"]

BaseUrls == {stem \o Slashes(n) : stem \in BaseStems, n \in 0..MaxSlashes}

\* A strip of one trailing slash only.
RstripSingle(s) == IF Len(s) > 0 /\ s[Len(s)] = "/" THEN SubSeq(s, 1, Len(s) - 1) ELSE s

\* str.rstrip("/"): s without its trailing slash characters.
RECURSIVE Rstrip(_)
Rstrip(s) == IF Len(s) > 0 /\ s[Len(s)] = "/" THEN Rstrip(SubSeq(s, 1, Len(s) - 1)) ELSE s

\* A session that is given the content type only.
SessionHeadersNoKey(key) == ("Content-Type" :> "application/json")

\* session.headers.update({...}) on the fresh session.
SessionHeaders(key) == ("Content-Type" :> "application/json") @@ ("X-API-Key" :> key)

Init ==
    /\ ctor \in [api_key : ApiKeys, base_url : BaseUrls]
    /\ api_key = ctor.api_key
    /\ base_url = Rstrip(ctor.base_url)
    /\ headers = SessionHeaders(ctor.api_key)
    /\ pc = [t \in Callers |-> "idle"]
    /\ inflight = [t \in Callers |-> NoneV]
    /\ attempts = [t \in Callers |-> 0]
    /\ response = [t \in Callers |-> NoneV]
    /\ result = [t \in Callers |-> NoneV]

\* ---------------------------------------------------------------- inputs

Ids == {"a1", "s1"}

\* Parameter dicts the callers pass (entities, queries, chat requests, ...).
Dicts == {EmptyDict, Obj([name |-> Str("n")])}

\* The updates mappings given to memory.update.
Updates == {EmptyDict, Obj([content |-> Str("c")]), Obj([id |-> Str("zz"), content |-> Str("c")])}

NoKeys == [k \in {} |-> NoneV]

\* The params given to scripts.invoke: scriptId, with or without a payload and
\* with or without a further key.
InvokeParams ==
    {Obj([scriptId |-> Str("s1")] @@ p @@ x) :
        p \in {NoKeys, [payload |-> NoneV], [payload |-> Obj([x |-> Num(1)])]},
        x \in {NoKeys, [version |-> Num(2)]}}
    \cup {Obj([scriptId |-> Str("a1")])}

\* The filters given to marketplace.browse (None is the default).
Filters == {NoneV, Obj([type |-> Str("agent"), limit |-> Num(10)])}

Queries == {"q1"}

\* ---------------------------------------------------------------- HTTP outcomes

Statuses == {200, 399, 400, 404}

SuccessOpts == {NoKeys, [success |-> Bool(TRUE)], [success |-> Bool(FALSE)]}

DataOpts == {NoKeys, [data |-> NoneV], [data |-> Obj([k |-> Num(1)])]}

ErrorOpts ==
    {NoKeys, [error |-> NoneV], [error |-> EmptyDict], [error |-> Obj([code |-> Str("c")])],
     [error |-> Obj([message |-> Str("m"), code |-> Str("c"), details |-> Obj([why |-> Str("w")])])]}

\* Bodies that parse to a JSON object: each success, data and error field alone
\* and together, and the envelope of a success that spells out "error": null.
Envelopes ==
    {Obj(s @@ d) : s \in SuccessOpts, d \in DataOpts}
    \cup {Obj(s @@ e) : s \in SuccessOpts, e \in ErrorOpts}
    \cup {Obj(s @@ [data |-> Obj([k |-> Num(1)]), error |-> NoneV]) : s \in SuccessOpts}

\* Bodies that parse to JSON that is no object.
NonObjects == {Arr(<<Num(1)>>), Str("ok")}

Bodies == Envelopes \cup NonObjects \cup {NotJson}

\* What session.request does: it raises a requests.RequestException (kind
\* "error") or returns a response with a status code and a body.
HttpResponse(status, body) == [kind |-> "http", status_code |-> status, body |-> body, text |-> ""]

RequestException(text) == [kind |-> "error", status_code |-> 0, body |-> NotJson, text |-> text]

Responses ==
    {HttpResponse(s, b) : s \in Statuses, b \in Bodies}
    \cup {RequestException(e) : e \in {"connection refused", "timed out"}}

\* ---------------------------------------------------------------- MirraSDK._request

Returned(value) ==
    [kind |-> "return", exc |-> "", value |-> value,
     message |-> NoneV, code |-> NoneV, status_code |-> NoneV, details |-> NoneV]

\* raise MirraError(message, code, status_code, details)
MirraError(message, code, status_code, details) ==
    [kind |-> "raise", exc |-> "MirraError", value |-> NoneV,
     message |-> message, code |-> code, status_code |-> status_code, details |-> details]

\* An exception of another type leaving _request.
Raised(exc) ==
    [kind |-> "raise", exc |-> exc, value |-> NoneV,
     message |-> NoneV, code |-> NoneV, status_code |-> NoneV, details |-> NoneV]

\* not result.get("success", False) or response.status_code >= 400
IsFailure(parsed, status_code) ==
    ~Truthy(Get(parsed, "success", Bool(FALSE))) \/ status_code >= 400

\* A parse failure reported without the status code.
InvalidJsonNoStatus(status_code) ==
    MirraError(Str("Invalid JSON response from API"), NoneV, NoneV, NoneV)

\* except ValueError: raise MirraError("Invalid JSON response from API", status_code=...)
InvalidJson(status_code) ==
    MirraError(Str("Invalid JSON response from API"), NoneV, Num(status_code), NoneV)

\* The whole envelope returned in place of its data.
ReturnEnvelope(parsed) == Returned(parsed)

\* return result.get("data")
ReturnData(parsed) == Returned(Get(parsed, "data", NoneV))

\* What _request returns or raises once session.request has returned or raised r.
Outcome(r) ==
    IF r.kind = "error"
    THEN MirraError(Str("Request failed: " \o r.text), NoneV, NoneV, NoneV)
    ELSE IF r.body = NotJson
    THEN InvalidJson(r.status_code)
    ELSE LET parsed == r.body IN
         IF ~IsDict(parsed)
         THEN Raised("AttributeError")
         ELSE IF IsFailure(parsed, r.status_code)
         THEN LET error == Get(parsed, "error", EmptyDict) IN
              IF ~IsDict(error)
              THEN Raised("AttributeError")
              ELSE MirraError(Get(error, "message", Str("Unknown error")),
                              Get(error, "code", NoneV),
                              Num(r.status_code),
                              Get(error, "details", NoneV))
         ELSE ReturnData(parsed)

\* The first half of _request, entered from facade method op called with args:
\* the URL is built and session.request is called once.
Request(t, op, args, method, path, data, params) ==
    /\ pc[t] # "waiting"
    /\ pc' = [pc EXCEPT ![t] = "waiting"]
    /\ inflight' = [inflight EXCEPT ![t] =
            [op |-> op, args |-> args, method |-> method, path |-> path,
             url |-> base_url \o path, json |-> data, params |-> params,
             headers |-> headers]]
    /\ attempts' = [attempts EXCEPT ![t] = 1]
    /\ response' = [response EXCEPT ![t] = NoneV]
    /\ result' = [result EXCEPT ![t] = NoneV]
    /\ UNCHANGED <<ctor, api_key, base_url, headers>>

\* A second half of _request that sends the request again after a transport failure.
ReceiveResponseRetrying(t) ==
    /\ pc[t] = "waiting"
    /\ \E r \in Responses :
        IF r.kind = "error" /\ attempts[t] < 2
        THEN /\ attempts' = [attempts EXCEPT ![t] = attempts[t] + 1]
             /\ UNCHANGED <<pc, inflight, response, result>>
        ELSE /\ response' = [response EXCEPT ![t] = r]
             /\ result' = [result EXCEPT ![t] = Outcome(r)]
             /\ pc' = [pc EXCEPT ![t] = "done"]
             /\ inflight' = [inflight EXCEPT ![t] = NoneV]
             /\ UNCHANGED attempts
    /\ UNCHANGED <<ctor, api_key, base_url, headers>>

\* A second half of _request that drops the API key from the session after a
\* response with an error status.
ReceiveResponseDroppingKey(t) ==
    /\ pc[t] = "waiting"
    /\ \E r \in Responses :
        /\ response' = [response EXCEPT ![t] = r]
        /\ result' = [result EXCEPT ![t] = Outcome(r)]
        /\ headers' = IF r.kind = "http" /\ r.status_code >= 400
                      THEN SessionHeadersNoKey(api_key)
                      ELSE headers
    /\ pc' = [pc EXCEPT ![t] = "done"]
    /\ inflight' = [inflight EXCEPT ![t] = NoneV]
    /\ UNCHANGED <<ctor, api_key, base_url, attempts>>

\* A second half of _request that keeps the last status in the session headers.
ReceiveResponseStoring(t) ==
    /\ pc[t] = "waiting"
    /\ \E r \in Responses :
        /\ response' = [response EXCEPT ![t] = r]
        /\ result' = [result EXCEPT ![t] = Outcome(r)]
        /\ headers' = IF r.kind = "http" /\ r.status_code >= 400
                      THEN ("X-Last-Error" :> "1") @@ headers
                      ELSE headers
    /\ pc' = [pc EXCEPT ![t] = "done"]
    /\ inflight' = [inflight EXCEPT ![t] = NoneV]
    /\ UNCHANGED <<ctor, api_key, base_url, attempts>>

\* The second half of _request: session.request returns or raises, and the call
\* returns or raises to its caller.
ReceiveResponse(t) ==
    /\ pc[t] = "waiting"
    /\ \E r \in Responses :
        /\ response' = [response EXCEPT ![t] = r]
        /\ result' = [result EXCEPT ![t] = Outcome(r)]
    /\ pc' = [pc EXCEPT ![t] = "done"]
    /\ inflight' = [inflight EXCEPT ![t] = NoneV]
    /\ UNCHANGED <<ctor, api_key, base_url, headers, attempts>>

\* ---------------------------------------------------------------- service facades

\* data={"id": id}
IdBody(id) == Obj([id |-> Str(id)])

\* data={"id": id, **updates}: a key of updates replaces an earlier equal key.
UpdateBody(id, updates) == Obj(updates.v @@ [id |-> Str(id)])

\* f"/scripts/{script_id}/invoke" with script_id = params["scriptId"]
InvokePath(params) == <<"/", "scripts", "/", params.v["scriptId"].v, "/", "invoke">>

\* The params forwarded whole as the body.
InvokeBodyForwarding(params) == params

\* data={"payload": payload} with payload = params.get("payload")
InvokeBody(params) == Obj([payload |-> Get(params, "payload", NoneV)])

\* params={"q": query}
SearchParams(query) == Obj([q |-> Str(query)])

MemoryCreate(t) ==
    \E params \in Dicts :
        Request(t, "memory.create", params, "POST", <<"/", "memory">>, params, NoneV)

MemorySearch(t) ==
    \E params \in Dicts :
        Request(t, "memory.search", params, "POST", <<"/", "memory", "/", "search">>, params, NoneV)

MemoryQuery(t) ==
    \E params \in Dicts :
        Request(t, "memory.query", params, "POST", <<"/", "memory", "/", "query">>, params, NoneV)

MemoryFindOne(t) ==
    \E id \in Ids :
        Request(t, "memory.find_one", Str(id), "POST", <<"/", "memory", "/", "findOne">>, IdBody(id), NoneV)

MemoryUpdate(t) ==
    \E id \in Ids, updates \in Updates :
        Request(t, "memory.update", Arr(<<Str(id), updates>>), "POST", <<"/", "memory", "/", "update">>,
                UpdateBody(id, updates), NoneV)

MemoryDelete(t) ==
    \E id \in Ids :
        Request(t, "memory.delete", Str(id), "POST", <<"/", "memory", "/", "delete">>, IdBody(id), NoneV)

AIChat(t) ==
    \E params \in Dicts :
        Request(t, "ai.chat", params, "POST", <<"/", "ai", "/", "chat">>, params, NoneV)

AIDecide(t) ==
    \E params \in Dicts :
        Request(t, "ai.decide", params, "POST", <<"/", "ai", "/", "decide">>, params, NoneV)

AIBatchChat(t) ==
    \E params \in Dicts :
        Request(t, "ai.batch_chat", params, "POST", <<"/", "ai", "/", "batchChat">>, params, NoneV)

AgentCreate(t) ==
    \E params \in Dicts :
        Request(t, "agents.create", params, "POST", <<"/", "agents">>, params, NoneV)

AgentGet(t) ==
    \E id \in Ids :
        Request(t, "agents.get", Str(id), "GET", <<"/", "agents", "/", id>>, NoneV, NoneV)

AgentList(t) ==
    Request(t, "agents.list", NoneV, "GET", <<"/", "agents">>, NoneV, NoneV)

AgentUpdate(t) ==
    \E id \in Ids, params \in Dicts :
        Request(t, "agents.update", Arr(<<Str(id), params>>), "PATCH", <<"/", "agents", "/", id>>, params, NoneV)

AgentDelete(t) ==
    \E id \in Ids :
        Request(t, "agents.delete", Str(id), "DELETE", <<"/", "agents", "/", id>>, NoneV, NoneV)

ScriptCreate(t) ==
    \E params \in Dicts :
        Request(t, "scripts.create", params, "POST", <<"/", "scripts">>, params, NoneV)

ScriptGet(t) ==
    \E id \in Ids :
        Request(t, "scripts.get", Str(id), "GET", <<"/", "scripts", "/", id>>, NoneV, NoneV)

ScriptList(t) ==
    Request(t, "scripts.list", NoneV, "GET", <<"/", "scripts">>, NoneV, NoneV)

ScriptUpdate(t) ==
    \E id \in Ids, params \in Dicts :
        Request(t, "scripts.update", Arr(<<Str(id), params>>), "PATCH", <<"/", "scripts", "/", id>>, params, NoneV)

ScriptDelete(t) ==
    \E id \in Ids :
        Request(t, "scripts.delete", Str(id), "DELETE", <<"/", "scripts", "/", id>>, NoneV, NoneV)

ScriptDeploy(t) ==
    \E id \in Ids :
        Request(t, "scripts.deploy", Str(id), "POST", <<"/", "scripts", "/", id, "/", "deploy">>, NoneV, NoneV)

ScriptInvoke(t) ==
    \E params \in InvokeParams :
        Request(t, "scripts.invoke", params, "POST", InvokePath(params), InvokeBody(params), NoneV)

ResourceCall(t) ==
    \E params \in Dicts :
        Request(t, "resources.call", params, "POST", <<"/", "resources", "/", "call">>, params, NoneV)

ResourceList(t) ==
    Request(t, "resources.list", NoneV, "GET", <<"/", "resources">>, NoneV, NoneV)

ResourceGet(t) ==
    \E id \in Ids :
        Request(t, "resources.get", Str(id), "GET", <<"/", "resources", "/", id>>, NoneV, NoneV)

TemplateList(t) ==
    Request(t, "templates.list", NoneV, "GET", <<"/", "templates">>, NoneV, NoneV)

TemplateGet(t) ==
    \E id \in Ids :
        Request(t, "templates.get", Str(id), "GET", <<"/", "templates", "/", id>>, NoneV, NoneV)

TemplateInstall(t) ==
    \E id \in Ids :
        Request(t, "templates.install", Str(id), "POST", <<"/", "templates", "/", id, "/", "install">>, NoneV, NoneV)

MarketplaceBrowse(t) ==
    \E filters \in Filters :
        Request(t, "marketplace.browse", filters, "GET", <<"/", "marketplace">>, NoneV, filters)

MarketplaceSearch(t) ==
    \E query \in Queries :
        Request(t, "marketplace.search", Str(query), "GET", <<"/", "marketplace", "/", "search">>, NoneV, SearchParams(query))

\* ---------------------------------------------------------------- specification

\* One facade method is called.
Call(t) ==
    \/ MemoryCreate(t)
    \/ MemorySearch(t)
    \/ MemoryQuery(t)
    \/ MemoryFindOne(t)
    \/ MemoryUpdate(t)
    \/ MemoryDelete(t)
    \/ AIChat(t)
    \/ AIDecide(t)
    \/ AIBatchChat(t)
    \/ AgentCreate(t)
    \/ AgentGet(t)
    \/ AgentList(t)
    \/ AgentUpdate(t)
    \/ AgentDelete(t)
    \/ ScriptCreate(t)
    \/ ScriptGet(t)
    \/ ScriptList(t)
    \/ ScriptUpdate(t)
    \/ ScriptDelete(t)
    \/ ScriptDeploy(t)
    \/ ScriptInvoke(t)
    \/ ResourceCall(t)
    \/ ResourceList(t)
    \/ ResourceGet(t)
    \/ TemplateList(t)
    \/ TemplateGet(t)
    \/ TemplateInstall(t)
    \/ MarketplaceBrowse(t)
    \/ MarketplaceSearch(t)

\* The caller whose calls follow one another.
MainCaller == "t1"

\* One caller: each call is made after the one before it has returned or raised.
Next ==
    \/ Call(MainCaller)
    \/ ReceiveResponse(MainCaller)

Spec == Init /\ [][Next]_vars

\* The client built with the default base URL.
InitDefault ==
    /\ Init
    /\ ctor = [api_key |-> "k1", base_url |-> DefaultBaseUrl]

\* Two callers (threads) share the client; their calls interleave.
NextConcurrent ==
    \E t \in Callers :
        \/ Call(t)
        \/ ReceiveResponse(t)

SpecConcurrent == InitDefault /\ [][NextConcurrent]_vars

\* ---------------------------------------------------------------- claims

\* The call of caller t has returned or raised after an HTTP response arrived.
Answered(t) == pc[t] = "done" /\ response[t].kind = "http"

\* The body of the response to caller t is a JSON object.
ObjectBody(t) == Answered(t) /\ response[t].body.t = "obj"

\* C1: when the response has a status below 400 and its body is an envelope with
\* success true, the call returns the envelope's data unchanged, and None when
\* the data field is absent or null.
C1_SuccessReturnsData ==
    \A t \in Callers :
        (/\ ObjectBody(t)
         /\ response[t].status_code < 400
         /\ "success" \in DOMAIN response[t].body.v
         /\ response[t].body.v["success"] = Bool(TRUE))
        => /\ result[t].kind = "return"
           /\ result[t].value = IF "data" \in DOMAIN response[t].body.v
                                THEN response[t].body.v["data"]
                                ELSE NoneV

\* C1 witness: a call answered 399 with success true and data {"k": 1} returned that data.
C1_Witness ==
    /\ ObjectBody(MainCaller)
    /\ response[MainCaller].status_code = 399
    /\ response[MainCaller].body.v = [success |-> Bool(TRUE), data |-> Obj([k |-> Num(1)])]
    /\ result[MainCaller].kind = "return"
    /\ result[MainCaller].value = Obj([k |-> Num(1)])

\* The error field of the envelope in the response to caller t, None when it is absent.
ErrorField(t) ==
    IF "error" \in DOMAIN response[t].body.v THEN response[t].body.v["error"] ELSE NoneV

\* The field of the envelope's error object, or default when the error object is
\* missing or does not have the field.
ErrorAttr(t, key, default) ==
    IF ErrorField(t).t = "obj" /\ key \in DOMAIN ErrorField(t).v
    THEN ErrorField(t).v[key]
    ELSE default

\* C2 (as claimed): for every parsed envelope (error absent, null or an object)
\* whose success is false or missing, or whose status is >= 400, the call raises
\* MirraError with message, code and details of the error object, the HTTP status
\* as status_code, and the message "Unknown error" when there is none.
C2_FailureRaisesMirraError ==
    \A t \in Callers :
        (/\ ObjectBody(t)
         /\ ErrorField(t).t \in {"none", "obj"}
         /\ \/ response[t].status_code >= 400
            \/ "success" \notin DOMAIN response[t].body.v
            \/ response[t].body.v["success"] = Bool(FALSE))
        => /\ result[t].kind = "raise"
           /\ result[t].exc = "MirraError"
           /\ result[t].status_code = Num(response[t].status_code)
           /\ result[t].message = ErrorAttr(t, "message", Str("Unknown error"))
           /\ result[t].code = ErrorAttr(t, "code", NoneV)
           /\ result[t].details = ErrorAttr(t, "details", NoneV)

\* C3: a body that is not JSON raises the invalid-response MirraError with the
\* response's status code, whatever the status, with no code and no details, and
\* not the "Request failed" error of a transport failure.
C3_InvalidJsonCarriesStatus ==
    \A t \in Callers :
        (Answered(t) /\ response[t].body = NotJson)
        => /\ result[t].kind = "raise"
           /\ result[t].exc = "MirraError"
           /\ result[t].message = Str("Invalid JSON response from API")
           /\ result[t].status_code = Num(response[t].status_code)
           /\ result[t].code = NoneV
           /\ result[t].details = NoneV

\* C3 witness: a 404 with a body that is not JSON raised MirraError with status_code 404.
C3_Witness ==
    /\ Answered(MainCaller)
    /\ response[MainCaller].status_code = 404
    /\ response[MainCaller].body = NotJson
    /\ result[MainCaller].exc = "MirraError"
    /\ result[MainCaller].status_code = Num(404)

\* C4 (as claimed): whatever the outcome of the HTTP exchange, the call returns a
\* value or raises MirraError and nothing else; a network failure raises a
\* MirraError with a message and no status_code.
C4_SingleErrorKind ==
    \A t \in Callers :
        pc[t] = "done"
        => /\ result[t].kind = "return" \/ result[t].exc = "MirraError"
           /\ response[t].kind = "error"
              => /\ result[t].exc = "MirraError"
                 /\ result[t].message.t = "str"
                 /\ result[t].status_code = NoneV

C6_UrlJoin ==
    \A t \in Callers :
        pc[t] = "waiting"
        => \E k \in 0..Len(ctor.base_url) :
             LET stem == SubSeq(ctor.base_url, 1, Len(ctor.base_url) - k) IN
             /\ ctor.base_url = stem \o Slashes(k)
             /\ Len(stem) > 0 => stem[Len(stem)] # "/"
             /\ base_url = stem
             /\ inflight[t].path[1] = "/"
             /\ inflight[t].url = stem \o inflight[t].path
             /\ Len(stem) > 0 =>
                  ~(inflight[t].url[Len(stem)] = "/" /\ inflight[t].url[Len(stem) + 1] = "/")

\* C6 witness: the client built with "https://x/api/" requests "https://x/api/agents"
\* for the path "/agents".
C6_Witness ==
    /\ ctor.base_url = <<"https:", "/", "/", "x", "/", "api", "/">>
    /\ pc[MainCaller] = "waiting"
    /\ inflight[MainCaller].path = <<"/", "agents">>
    /\ inflight[MainCaller].url = <<"https:", "/", "/", "x", "/", "api", "/", "agents">>

\* C7: scripts.invoke sends one POST to /scripts/{scriptId}/invoke whose body has
\* the payload key only, holding params' payload, or null when params has none.
C7_InvokeBody ==
    \A t \in Callers :
        (pc[t] = "waiting" /\ inflight[t].op = "scripts.invoke")
        => /\ attempts[t] = 1
           /\ inflight[t].method = "POST"
           /\ inflight[t].path =
                <<"/", "scripts", "/", inflight[t].args.v["scriptId"].v, "/", "invoke">>
           /\ inflight[t].json.t = "obj"
           /\ DOMAIN inflight[t].json.v = {"payload"}
           /\ inflight[t].json.v["payload"] =
                IF "payload" \in DOMAIN inflight[t].args.v
                THEN inflight[t].args.v["payload"]
                ELSE NoneV

\* C7 witness: invoke with scriptId s1, payload {"x": 1} and a further key posts
\* {"payload": {"x": 1}} to /scripts/s1/invoke.
C7_Witness ==
    /\ pc[MainCaller] = "waiting"
    /\ inflight[MainCaller].op = "scripts.invoke"
    /\ DOMAIN inflight[MainCaller].args.v = {"scriptId", "payload", "version"}
    /\ inflight[MainCaller].path = <<"/", "scripts", "/", "s1", "/", "invoke">>
    /\ inflight[MainCaller].json = Obj([payload |-> Obj([x |-> Num(1)])])

\* C8: every request, after any earlier calls, carries Content-Type:
\* application/json and X-API-Key equal to the constructor's API key.
C8_FixedHeaders ==
    \A t \in Callers :
        pc[t] = "waiting"
        => /\ {"Content-Type", "X-API-Key"} \subseteq DOMAIN inflight[t].headers
           /\ inflight[t].headers["Content-Type"] = "application/json"
           /\ inflight[t].headers["X-API-Key"] = ctor.api_key

\* C8 witness: a request of the client built with key k2 carries X-API-Key: k2.
C8_Witness ==
    /\ ctor.api_key = "k2"
    /\ pc[MainCaller] = "waiting"
    /\ inflight[MainCaller].headers["X-API-Key"] = "k2"

C10_UpdateIdIsArgument ==
    \A t \in Callers :
        (pc[t] = "waiting" /\ inflight[t].op = "memory.update")
        => LET id == inflight[t].args.v[1]
               updates == inflight[t].args.v[2].v
               body == inflight[t].json.v
           IN /\ inflight[t].method = "POST"
              /\ inflight[t].path = <<"/", "memory", "/", "update">>
              /\ DOMAIN body = {"id"} \cup DOMAIN updates
              /\ body["id"] = id
              /\ \A k \in DOMAIN updates \ {"id"} : body[k] = updates[k]

====
